---- MODULE Spec2Model ----
(***************************************************************************)
(* Model of app/backtester/engine.py: BacktestEngine.run and               *)
(* BacktestEngine._simulate_trading (the trading simulation loop).         *)
(*                                                                         *)
(* Numbers.  The engine computes in Python floats.  The model computes in  *)
(* exact arithmetic: slippage is slippage/SlipDen, commission_rate is      *)
(* commission_rate/CommDen, close prices are whole currency units, and     *)
(* every money value (cash, price, amount, commission, total) is an        *)
(* integer count of 1/Unit currency units, Unit = SlipDen * CommDen.       *)
(* Every product the engine forms is exact in these units; binary rounding *)
(* of floats is not modelled.                                              *)
(*                                                                         *)
(* Inputs.  all_stocks_data (the rows _fetch_data returns) is fixed in     *)
(* Init: any set of (stock_code, trade_date) records over Dates, each      *)
(* code following its own price path (PriceOf), so codes may have          *)
(* different date sets.  all_signals is read by the loop only at the       *)
(* current trade_date (lines 152 and 182), so the signal rows of a date    *)
(* are drawn when the loop reaches that date (day_signals); a row may      *)
(* exist on a date its code has no record for.  stock_codes holds          *)
(* distinct codes.                                                         *)
(***************************************************************************)
EXTENDS Integers, Sequences, FiniteSets, TLC

\* ------------------------------------------------------------------ bounds
MaxDate == 3

Dates == 1..MaxDate
StockCodeLists == {<<>>, <<"A">>, <<"A", "B">>}

\* close price of code c on date d, in currency units
PriceCycle(c) == IF c = "A" THEN <<10, 12, 8>> ELSE <<12, 10>>
PriceOf(c, d) == PriceCycle(c)[((d - 1) % Len(PriceCycle(c))) + 1]

\* <<initial_capital, commission_rate, slippage>>: the configurations that
\* are valid, and those with one invalid field
ValidConfigs == {1000, 10000} \X {0, 1} \X {0, 1}
InvalidConfigs == {<<0, 0, 0>>, <<10000, -1, 0>>, <<10000, 0, -1>>}
Configs == ValidConfigs \cup InvalidConfigs

\* ------------------------------------------------------- number encoding
SlipDen == 10
CommDen == 1000
Unit == SlipDen * CommDen
Money(x) == x * Unit

\* --------------------------------------------------------- program constants
LotSize == 100
CashThreshold == 1

Signals == {"buy", "sell", "hold"}
NoRow == [signal |-> "none", close_price |-> 0]

VARIABLES
    stock_codes,        \* self.stock_codes
    initial_capital,    \* self.initial_capital (currency units)
    commission_rate,    \* self.commission_rate * CommDen
    slippage,           \* self.slippage * SlipDen
    all_stocks_data,    \* rows {stock_code, trade_date, close_price}
    pc,                 \* position of the run
    sim_created,        \* _simulate_trading has created its state
    cash,               \* in 1/Unit
    positions,          \* stock_code -> quantity
    portfolio_history,  \* sequence of [date, total]
    trades,             \* sequence of trade records
    date_idx,           \* index of trade_date in SortedDates
    day_signals,        \* rows of all_signals at trade_date, per stock_code
    first_run           \* record of an earlier run on the same inputs (no
                        \* program state: kept to compare two runs)

vars == <<stock_codes, initial_capital, commission_rate, slippage,
          all_stocks_data, pc, sim_created, cash, positions,
          portfolio_history, trades, date_idx, day_signals, first_run>>

config == <<stock_codes, initial_capital, commission_rate, slippage, all_stocks_data>>

\* ------------------------------------------------------------ helpers
Range(s) == {s[i] : i \in 1..Len(s)}

\* mutant of SortedSeq: descending order
RECURSIVE SortedSeqDescending(_)
SortedSeqDescending(S) ==
    IF S = {} THEN <<>>
    ELSE LET m == CHOOSE x \in S : \A y \in S : x >= y
         IN <<m>> \o SortedSeqDescending(S \ {m})

RECURSIVE SortedSeq(_)
SortedSeq(S) ==
    IF S = {} THEN <<>>
    ELSE LET m == CHOOSE x \in S : \A y \in S : x <= y
         IN <<m>> \o SortedSeq(S \ {m})

\* sorted(all_stocks_data['trade_date'].unique())
SortedDates == SortedSeq({r.trade_date : r \in all_stocks_data})

\* all_stocks_data[(trade_date == d) & (stock_code == c)]['close_price']
PriceSeries(c, d) ==
    {r.close_price : r \in {x \in all_stocks_data :
                              x.trade_date = d /\ x.stock_code = c}}

\* ....iloc[0] of a non-empty series
ClosePrice(c, d) == CHOOSE p \in PriceSeries(c, d) : TRUE

\* all_signals.get(stock_code) is not None: _generate_all_signals makes one
\* entry per group of all_stocks_data.groupby('stock_code')
HasSignals(c) == \E r \in all_stocks_data : r.stock_code = c

\* mutant of SellPrice: the sell is slipped upwards, like a buy
SellPriceSlippedUp(current_price) == (current_price * (SlipDen + slippage)) \div SlipDen

\* mutant of BuyPrice: the buy is slipped downwards, like a sell
BuyPriceSlippedDown(current_price) == (current_price * (SlipDen - slippage)) \div SlipDen

\* price * (1 - slippage), price * (1 + slippage): money in, money out
SellPrice(current_price) == (current_price * (SlipDen - slippage)) \div SlipDen
BuyPrice(current_price) == (current_price * (SlipDen + slippage)) \div SlipDen

\* trade_amount * self.commission_rate
Commission(trade_amount) == (trade_amount * commission_rate) \div CommDen

Trade(c, d, type, price, qty, amount, comm, cash_after) ==
    [stock_code |-> c, date |-> d, trade_type |-> type, price |-> price,
     quantity |-> qty, amount |-> amount, commission |-> comm,
     cash_after |-> cash_after]

\* ---------------------------------------------------------------- inputs
\* the rows _fetch_data can return for stock_codes: at most one per code and date
DataSets(codes) ==
    {{[stock_code |-> cd[1], trade_date |-> cd[2],
       close_price |-> PriceOf(cd[1], cd[2])] : cd \in present} :
     present \in SUBSET (Range(codes) \X Dates)}

\* the row of all_signals[c] at date d, if any: it carries a signal and the
\* close price of c on d
RowChoices(c, d) ==
    IF ~HasSignals(c) THEN {NoRow}
    ELSE {NoRow} \cup {[signal |-> s, close_price |-> PriceOf(c, d)] : s \in Signals}

DayRows(d) ==
    {rows \in [Range(stock_codes) -> UNION {RowChoices(c, d) : c \in Range(stock_codes)}] :
        \A c \in Range(stock_codes) : rows[c] \in RowChoices(c, d)}

NoRows == [c \in Range(stock_codes) |-> NoRow]

\* ------------------------------------------------------------------ Init
\* the state after BacktestEngine.__init__: the configuration is stored as
\* given (lines 33-36), nothing else exists yet
\* no earlier run
NoFirstRun == [complete |-> FALSE, stock_codes |-> <<>>, steps |-> <<>>]

Init ==
    /\ stock_codes \in StockCodeLists
    /\ \E cfg \in Configs :
         /\ initial_capital = cfg[1]
         /\ commission_rate = cfg[2]
         /\ slippage = cfg[3]
    /\ all_stocks_data \in DataSets(stock_codes)
    /\ pc = "constructed"
    /\ sim_created = FALSE
    /\ cash = 0
    /\ positions = <<>>
    /\ portfolio_history = <<>>
    /\ trades = <<>>
    /\ date_idx = 0
    /\ day_signals = <<>>
    /\ first_run = NoFirstRun

trade_date == SortedDates[date_idx]

\* mutant of SellOne: the proceeds are not credited to cash
SellOneWithoutCredit(c, d, rows, st) ==
    IF /\ st.positions[c] > 0
       /\ HasSignals(c)
       /\ rows[c] # NoRow
       /\ rows[c].signal = "sell"
    THEN LET current_price == Money(rows[c].close_price)
             executed_price == SellPrice(current_price)
             quantity_to_sell == st.positions[c]
             trade_amount == executed_price * quantity_to_sell
             commission == Commission(trade_amount)
             new_cash == st.cash
         IN [cash |-> new_cash,
             positions |-> [st.positions EXCEPT ![c] = 0],
             trades |-> Append(st.trades,
                               Trade(c, d, "sell", executed_price, quantity_to_sell,
                                     trade_amount, commission, new_cash))]
    ELSE st

\* ------------------------------------------------------------- sell pass
\* lines 148-172, one iteration of the loop over stock_codes
SellOne(c, d, rows, st) ==
    IF /\ st.positions[c] > 0
       /\ HasSignals(c)
       /\ rows[c] # NoRow
       /\ rows[c].signal = "sell"
    THEN LET current_price == Money(rows[c].close_price)
             executed_price == SellPrice(current_price)
             quantity_to_sell == st.positions[c]
             trade_amount == executed_price * quantity_to_sell
             commission == Commission(trade_amount)
             new_cash == st.cash + (trade_amount - commission)
         IN [cash |-> new_cash,
             positions |-> [st.positions EXCEPT ![c] = 0],
             trades |-> Append(st.trades,
                               Trade(c, d, "sell", executed_price, quantity_to_sell,
                                     trade_amount, commission, new_cash))]
    ELSE st

RECURSIVE SellLoop(_, _, _, _)
SellLoop(i, d, rows, st) ==
    IF i > Len(stock_codes) THEN st
    ELSE SellLoop(i + 1, d, rows, SellOne(stock_codes[i], d, rows, st))

\* -------------------------------------------------------------- buy pass
\* mutant of BuySignalsToday: held codes are candidates too
BuySignalsTodayAlsoHeld(rows, pos) ==
    SelectSeq(stock_codes,
              LAMBDA c : /\ HasSignals(c)
                         /\ rows[c] # NoRow
                         /\ rows[c].signal = "buy")

\* lines 176-187: buy_signals_today, in stock_codes order
BuySignalsToday(rows, pos) ==
    SelectSeq(stock_codes,
              LAMBDA c : /\ pos[c] = 0
                         /\ HasSignals(c)
                         /\ rows[c] # NoRow
                         /\ rows[c].signal = "buy")

\* int(capital_per_buy // executed_price) with capital_per_buy = pass_cash / n
RawQty(pass_cash, n, executed_price) == pass_cash \div (n * executed_price)

\* mutant of LotRound: no rounding to whole lots
LotRoundNone(raw_qty) == raw_qty

\* (raw_qty // 100) * 100
LotRound(raw_qty) == (raw_qty \div LotSize) * LotSize

\* mutant of BuyOne: the commission is recorded but not debited
BuyOneCommissionNotDebited(c, d, rows, pass_cash, n, st) ==
    LET current_price == Money(rows[c].close_price)
        executed_price == BuyPrice(current_price)
        quantity == LotRound(RawQty(pass_cash, n, executed_price))
        trade_amount == executed_price * quantity
        commission == Commission(trade_amount)
        new_cash == st.cash - trade_amount
    IN IF quantity >= LotSize
       THEN [cash |-> new_cash,
             positions |-> [st.positions EXCEPT ![c] = quantity],
             trades |-> Append(st.trades,
                               Trade(c, d, "buy", executed_price, quantity,
                                     trade_amount, commission, new_cash))]
       ELSE st

\* mutant of BuyOne: the allocation is recomputed from the cash left by the
\* earlier buys of the pass
BuyOneFromRemainingCash(c, d, rows, pass_cash, n, st) ==
    LET current_price == Money(rows[c].close_price)
        executed_price == BuyPrice(current_price)
        quantity == LotRound(RawQty(st.cash, n, executed_price))
        trade_amount == executed_price * quantity
        commission == Commission(trade_amount)
        new_cash == st.cash - (trade_amount + commission)
    IN IF quantity >= LotSize
       THEN [cash |-> new_cash,
             positions |-> [st.positions EXCEPT ![c] = quantity],
             trades |-> Append(st.trades,
                               Trade(c, d, "buy", executed_price, quantity,
                                     trade_amount, commission, new_cash))]
       ELSE st

\* mutant of BuyOne: the check for at least one lot is missing
BuyOneWithoutLotCheck(c, d, rows, pass_cash, n, st) ==
    LET current_price == Money(rows[c].close_price)
        executed_price == BuyPrice(current_price)
        quantity == LotRound(RawQty(pass_cash, n, executed_price))
        trade_amount == executed_price * quantity
        commission == Commission(trade_amount)
        new_cash == st.cash - (trade_amount + commission)
    IN [cash |-> new_cash,
        positions |-> [st.positions EXCEPT ![c] = quantity],
        trades |-> Append(st.trades,
                          Trade(c, d, "buy", executed_price, quantity,
                                trade_amount, commission, new_cash))]

\* lines 192-211, one iteration of the loop over buy_signals_today
BuyOne(c, d, rows, pass_cash, n, st) ==
    LET current_price == Money(rows[c].close_price)
        executed_price == BuyPrice(current_price)
        raw_qty == RawQty(pass_cash, n, executed_price)
        quantity == LotRound(raw_qty)
        trade_amount == executed_price * quantity
        commission == Commission(trade_amount)
        new_cash == st.cash - (trade_amount + commission)
    IN IF quantity >= LotSize
       THEN [cash |-> new_cash,
             positions |-> [st.positions EXCEPT ![c] = quantity],
             trades |-> Append(st.trades,
                               Trade(c, d, "buy", executed_price, quantity,
                                     trade_amount, commission, new_cash))]
       ELSE st

RECURSIVE BuyLoop(_, _, _, _, _, _)
BuyLoop(i, buys, d, rows, pass_cash, st) ==
    IF i > Len(buys) THEN st
    ELSE BuyLoop(i + 1, buys, d, rows, pass_cash,
                 BuyOne(buys[i], d, rows, pass_cash, Len(buys), st))

\* mutant of BuyAll: only the first listed candidate is bought, with all the cash
BuyAllFirstListedOnly(d, rows, st) ==
    LET buy_signals_today == BuySignalsToday(rows, st.positions)
    IN IF Len(buy_signals_today) > 0 /\ st.cash > Money(CashThreshold)
       THEN BuyLoop(1, <<buy_signals_today[1]>>, d, rows, st.cash, st)
       ELSE st

\* lines 176-211
BuyAll(d, rows, st) ==
    LET buy_signals_today == BuySignalsToday(rows, st.positions)
    IN IF Len(buy_signals_today) > 0 /\ st.cash > Money(CashThreshold)
       THEN BuyLoop(1, buy_signals_today, d, rows, st.cash, st)
       ELSE st

\* ------------------------------------------------------------- valuation
\* lines 215-222, from stock_codes[i] on: the value added to
\* current_portfolio_value; line 221, .iloc[0] of an empty series, raises
\* IndexError
RECURSIVE PositionValue(_, _, _)
PositionValue(i, d, pos) ==
    IF i > Len(stock_codes) THEN [raised |-> FALSE, value |-> 0]
    ELSE LET c == stock_codes[i]
             rest == PositionValue(i + 1, d, pos)
         IN IF pos[c] > 0
            THEN IF PriceSeries(c, d) = {}
                 THEN [raised |-> TRUE, value |-> 0]
                 ELSE [rest EXCEPT !.value = pos[c] * Money(ClosePrice(c, d)) + @]
            ELSE rest

\* mutant of PortfolioValue: a held position with no price is skipped
RECURSIVE PositionValueSkipping(_, _, _)
PositionValueSkipping(i, d, pos) ==
    IF i > Len(stock_codes) THEN 0
    ELSE LET c == stock_codes[i]
         IN (IF pos[c] > 0 /\ PriceSeries(c, d) # {}
             THEN pos[c] * Money(ClosePrice(c, d)) ELSE 0)
            + PositionValueSkipping(i + 1, d, pos)

PortfolioValueSkipsUnpriced(d, c0, pos) ==
    [raised |-> FALSE, total |-> c0 + PositionValueSkipping(1, d, pos)]

\* mutant of PortfolioValue: the positions are left out of the total
PortfolioValueCashOnly(d, c0, pos) ==
    [raised |-> PositionValue(1, d, pos).raised, total |-> c0]

\* lines 214-222: current_portfolio_value, or the IndexError
PortfolioValue(d, c0, pos) ==
    LET held == PositionValue(1, d, pos)
    IN [raised |-> held.raised, total |-> c0 + held.value]

\* ---------------------------------------------------- forced liquidation
\* mutant of LiquidateOne: the sold position is not reset (line 263 missing)
LiquidateOneKeepsPosition(c, last_trade_date, st) ==
    IF st.positions[c] <= 0 THEN st
    ELSE IF PriceSeries(c, last_trade_date) = {} THEN st
    ELSE LET qty == st.positions[c]
             last_price == Money(ClosePrice(c, last_trade_date))
             executed_price == SellPrice(last_price)
             trade_amount == qty * executed_price
             commission == Commission(trade_amount)
             new_cash == st.cash + (trade_amount - commission)
         IN [cash |-> new_cash,
             positions |-> st.positions,
             trades |-> Append(st.trades,
                               Trade(c, last_trade_date, "sell", executed_price, qty,
                                     trade_amount, commission, new_cash))]

\* lines 231-263, one iteration of the loop over positions.items()
LiquidateOne(c, last_trade_date, st) ==
    IF st.positions[c] <= 0 THEN st
    ELSE IF PriceSeries(c, last_trade_date) = {} THEN st
    ELSE LET qty == st.positions[c]
             last_price == Money(ClosePrice(c, last_trade_date))
             executed_price == SellPrice(last_price)
             trade_amount == qty * executed_price
             commission == Commission(trade_amount)
             new_cash == st.cash + (trade_amount - commission)
         IN [cash |-> new_cash,
             positions |-> [st.positions EXCEPT ![c] = 0],
             trades |-> Append(st.trades,
                               Trade(c, last_trade_date, "sell", executed_price, qty,
                                     trade_amount, commission, new_cash))]

RECURSIVE LiquidateLoop(_, _, _)
LiquidateLoop(i, last_trade_date, st) ==
    IF i > Len(stock_codes) THEN st
    ELSE LiquidateLoop(i + 1, last_trade_date,
                       LiquidateOne(stock_codes[i], last_trade_date, st))

\* mutant of CorrectLastSnapshot: the cash-only snapshot is always appended
CorrectLastSnapshotAppends(hist, last_trade_date, final_cash) ==
    Append(hist, [date |-> last_trade_date, total |-> final_cash])

\* lines 266-269
CorrectLastSnapshot(hist, last_trade_date, final_cash) ==
    IF Len(hist) > 0 /\ hist[Len(hist)].date = last_trade_date
    THEN [hist EXCEPT ![Len(hist)].total = final_cash]
    ELSE Append(hist, [date |-> last_trade_date, total |-> final_cash])

\* line 228
AnyOpen(pos) == \E c \in DOMAIN pos : pos[c] > 0

\* --------------------------------------------------------------- actions
State == [cash |-> cash, positions |-> positions, trades |-> trades]

\* run(), lines 60-63: no data, no simulation
RunNoData ==
    /\ pc = "constructed"
    /\ all_stocks_data = {}
    /\ pc' = "no_data"
    /\ UNCHANGED <<config, sim_created, cash, positions, portfolio_history,
                   trades, date_idx, day_signals>>

\* mutant of RunSimulate: the check for empty data (lines 61-63) is missing
RunSimulateWithoutDataCheck ==
    /\ pc = "constructed"
    /\ sim_created' = TRUE
    /\ cash' = Money(initial_capital)
    /\ positions' = [c \in Range(stock_codes) |-> 0]
    /\ portfolio_history' = <<>>
    /\ trades' = <<>>
    /\ date_idx' = 1
    /\ day_signals' = NoRows
    /\ pc' = "sell"
    /\ UNCHANGED config

\* run(), lines 60-69, and _simulate_trading, lines 138-144
RunSimulate ==
    /\ pc = "constructed"
    /\ all_stocks_data # {}
    /\ sim_created' = TRUE
    /\ cash' = Money(initial_capital)
    /\ positions' = [c \in Range(stock_codes) |-> 0]
    /\ portfolio_history' = <<>>
    /\ trades' = <<>>
    /\ date_idx' = 1
    /\ day_signals' = NoRows
    /\ pc' = "sell"
    /\ UNCHANGED config

\* mutant of SellPass: the buys of the date are executed before its sells
SellPassBuysFirst ==
    /\ pc = "sell"
    /\ \E rows \in DayRows(trade_date) :
         LET st == SellLoop(1, trade_date, rows, BuyAll(trade_date, rows, State))
         IN /\ day_signals' = rows
            /\ cash' = st.cash
            /\ positions' = st.positions
            /\ trades' = st.trades
    /\ pc' = "buy"
    /\ UNCHANGED <<config, sim_created, portfolio_history, date_idx>>

\* lines 147-172 on trade_date
SellPass ==
    /\ pc = "sell"
    /\ \E rows \in DayRows(trade_date) :
         LET st == SellLoop(1, trade_date, rows, State)
         IN /\ day_signals' = rows
            /\ cash' = st.cash
            /\ positions' = st.positions
            /\ trades' = st.trades
    /\ pc' = "buy"
    /\ UNCHANGED <<config, sim_created, portfolio_history, date_idx>>

\* lines 176-211 on trade_date
BuyPass ==
    /\ pc = "buy"
    /\ LET st == BuyAll(trade_date, day_signals, State)
       IN /\ cash' = st.cash
          /\ positions' = st.positions
          /\ trades' = st.trades
    /\ pc' = "value"
    /\ UNCHANGED <<config, sim_created, portfolio_history, date_idx, day_signals>>

\* lines 214-224 on trade_date, then the next date or the end of the loop
Valuation ==
    /\ pc = "value"
    /\ ~PortfolioValue(trade_date, cash, positions).raised
    /\ portfolio_history' =
         Append(portfolio_history,
                [date |-> trade_date,
                 total |-> PortfolioValue(trade_date, cash, positions).total])
    /\ IF date_idx < Len(SortedDates)
       THEN /\ date_idx' = date_idx + 1
            /\ pc' = "sell"
       ELSE /\ date_idx' = date_idx
            /\ pc' = "liquidate"
    /\ day_signals' = NoRows
    /\ UNCHANGED <<config, sim_created, cash, positions, trades>>

\* line 221 raises: the exception leaves _simulate_trading and run()
ValuationError ==
    /\ pc = "value"
    /\ PortfolioValue(trade_date, cash, positions).raised
    /\ pc' = "raised"
    /\ UNCHANGED <<config, sim_created, cash, positions, portfolio_history,
                   trades, date_idx, day_signals>>

\* mutant of ForcedLiquidation: open positions are closed or left open
ForcedLiquidationOrNot ==
    /\ pc = "liquidate"
    /\ \/ /\ AnyOpen(positions)
          /\ LET last_trade_date == SortedDates[Len(SortedDates)]
                 st == LiquidateLoop(1, last_trade_date, State)
             IN /\ cash' = st.cash
                /\ positions' = st.positions
                /\ trades' = st.trades
                /\ portfolio_history' =
                     CorrectLastSnapshot(portfolio_history, last_trade_date, st.cash)
       \/ UNCHANGED <<cash, positions, trades, portfolio_history>>
    /\ pc' = "returned"
    /\ UNCHANGED <<config, sim_created, date_idx, day_signals>>

\* lines 228-271
ForcedLiquidation ==
    /\ pc = "liquidate"
    /\ IF AnyOpen(positions)
       THEN LET last_trade_date == SortedDates[Len(SortedDates)]
                st == LiquidateLoop(1, last_trade_date, State)
            IN /\ cash' = st.cash
               /\ positions' = st.positions
               /\ trades' = st.trades
               /\ portfolio_history' =
                    CorrectLastSnapshot(portfolio_history, last_trade_date, st.cash)
       ELSE UNCHANGED <<cash, positions, trades, portfolio_history>>
    /\ pc' = "returned"
    /\ UNCHANGED <<config, sim_created, date_idx, day_signals>>

\* one run of one engine
Next ==
    \/ RunNoData /\ UNCHANGED first_run
    \/ RunSimulate /\ UNCHANGED first_run
    \/ SellPass /\ UNCHANGED first_run
    \/ BuyPass /\ UNCHANGED first_run
    \/ Valuation /\ UNCHANGED first_run
    \/ ValuationError /\ UNCHANGED first_run
    \/ ForcedLiquidation /\ UNCHANGED first_run

Spec == Init /\ [][Next]_vars

\* ------------------------------------------------------------ two runs
\* A first engine runs on two instruments and every state it goes through is
\* recorded; then a second engine is constructed with the same configuration
\* and the same or the reversed stock_codes, and runs on the same data and the
\* same signal rows.

\* the dates of the two runs
TwoRunDates == 1..(MaxDate - 1)

\* what a run shows at one step
Observed ==
    [pc |-> pc, date_idx |-> date_idx, cash |-> cash, positions |-> positions,
     trades |-> trades, portfolio_history |-> portfolio_history,
     day_signals |-> day_signals]

Reversed(seq) == [i \in 1..Len(seq) |-> seq[Len(seq) + 1 - i]]

TwoRunsInit ==
    /\ stock_codes = <<"A", "B">>
    /\ \E cfg \in ValidConfigs :
         /\ initial_capital = cfg[1]
         /\ commission_rate = cfg[2]
         /\ slippage = cfg[3]
    /\ all_stocks_data =
         {[stock_code |-> c, trade_date |-> d, close_price |-> PriceOf(c, d)] :
          c \in {"A", "B"}, d \in TwoRunDates}
    /\ pc = "constructed"
    /\ sim_created = FALSE
    /\ cash = 0
    /\ positions = <<>>
    /\ portfolio_history = <<>>
    /\ trades = <<>>
    /\ date_idx = 0
    /\ day_signals = <<>>
    /\ first_run = NoFirstRun

Recorded == first_run' = [first_run EXCEPT !.steps = Append(@, Observed')]

\* __init__, lines 17-51, of the second engine: same arguments, stock_codes in
\* the same or in the reversed order
Relist ==
    /\ ~first_run.complete
    /\ pc = "returned"
    /\ \E listing \in {stock_codes, Reversed(stock_codes)} :
         stock_codes' = listing
    /\ first_run' = [first_run EXCEPT !.complete = TRUE,
                                       !.stock_codes = stock_codes]
    /\ pc' = "constructed"
    /\ sim_created' = FALSE
    /\ cash' = 0
    /\ positions' = <<>>
    /\ portfolio_history' = <<>>
    /\ trades' = <<>>
    /\ date_idx' = 0
    /\ day_signals' = <<>>
    /\ UNCHANGED <<initial_capital, commission_rate, slippage, all_stocks_data>>

\* the rows the first run read at the date the second run is at
RowsOfFirstRun ==
    {st.day_signals : st \in {st \in Range(first_run.steps) :
                                 st.pc = "buy" /\ st.date_idx = date_idx}}

\* lines 147-172 in the second run: the sell pass on the rows of the first run
SellPassAgain ==
    /\ pc = "sell"
    /\ \E rows \in RowsOfFirstRun :
         LET st == SellLoop(1, trade_date, rows, State)
         IN /\ day_signals' = rows
            /\ cash' = st.cash
            /\ positions' = st.positions
            /\ trades' = st.trades
    /\ pc' = "buy"
    /\ UNCHANGED <<config, sim_created, portfolio_history, date_idx>>

TwoRunsNext ==
    \/ ~first_run.complete /\ RunSimulate /\ Recorded
    \/ ~first_run.complete /\ SellPass /\ Recorded
    \/ ~first_run.complete /\ BuyPass /\ Recorded
    \/ ~first_run.complete /\ Valuation /\ Recorded
    \/ ~first_run.complete /\ ForcedLiquidation /\ Recorded
    \/ Relist
    \/ first_run.complete /\ RunSimulate /\ UNCHANGED first_run
    \/ first_run.complete /\ SellPassAgain /\ UNCHANGED first_run
    \/ first_run.complete /\ BuyPass /\ UNCHANGED first_run
    \/ first_run.complete /\ Valuation /\ UNCHANGED first_run
    \/ first_run.complete /\ ForcedLiquidation /\ UNCHANGED first_run

TwoRuns == TwoRunsInit /\ [][TwoRunsNext]_vars

\* ================================================================ claims
ValidConfig ==
    /\ initial_capital > 0
    /\ Len(stock_codes) > 0
    /\ commission_rate >= 0
    /\ slippage >= 0

LastDate == SortedDates[Len(SortedDates)]
Codes == Range(stock_codes)
BuyAt(i) == trades[i].trade_type = "buy"
SellAt(i) == trades[i].trade_type = "sell"

\* C1: with a valid configuration, cash is >= 0 after every executed buy
\* trade.
C1_CashNeverNegativeAfterBuy ==
    ValidConfig => \A i \in DOMAIN trades : BuyAt(i) => trades[i].cash_after >= 0

\* C2 as stated: in the whole ledger, no buy precedes a sell of the same date.
C2_NoBuyBeforeSellSameDate ==
    \A i, j \in DOMAIN trades :
        (i < j /\ trades[i].date = trades[j].date) => ~(BuyAt(i) /\ SellAt(j))

\* C2, amended: while the date loop runs and when it has ended, no buy
\* precedes a sell of the same date; in the returned ledger a sell that
\* follows a buy of its date is dated the last date and lies in the closing
\* run of last-date sells, the ones forced liquidation appends.
C2_LoopSellsBeforeBuys ==
    \A i, j \in DOMAIN trades :
        (i < j /\ trades[i].date = trades[j].date /\ BuyAt(i) /\ SellAt(j))
        => /\ pc = "returned"
           /\ trades[j].date = LastDate
           /\ \A m \in j..Len(trades) : SellAt(m) /\ trades[m].date = LastDate

\* a date with a sell of the sell pass followed by a buy of the buy pass, in a
\* returned ledger that also ends with a forced sell after a last-date buy
C2_Witness ==
    /\ pc = "returned"
    /\ \E i, j \in DOMAIN trades :
         i < j /\ trades[i].date = trades[j].date /\ SellAt(i) /\ BuyAt(j)
    /\ \E i, j \in DOMAIN trades :
         i < j /\ trades[i].date = trades[j].date /\ BuyAt(i) /\ SellAt(j)

DatesOf(c) == {r.trade_date : r \in {x \in all_stocks_data : x.stock_code = c}}
Last(seq) == seq[Len(seq)]

\* a buy of the last date followed by a sell: the sell is a forced one
ForcedSellHappened ==
    \E i, j \in DOMAIN trades :
        i < j /\ BuyAt(i) /\ SellAt(j) /\ trades[i].date = LastDate

\* C3: when _simulate_trading returns, every position is 0 and the last
\* snapshot's total equals the final cash; when the date loop has ended, every
\* open position has a close price on the last date, so forced liquidation
\* skips none.
C3_AllRealizedAtReturn ==
    /\ pc = "returned" =>
         /\ \A c \in Codes : positions[c] = 0
         /\ Len(portfolio_history) > 0
         /\ Last(portfolio_history).total = cash
    /\ pc = "liquidate" =>
         \A c \in Codes : positions[c] > 0 => PriceSeries(c, LastDate) # {}

\* a run over instruments with different date sets that ended in a forced
\* liquidation, with frictions
C3_Witness ==
    /\ pc = "returned"
    /\ ForcedSellHappened
    /\ commission_rate > 0
    /\ \E c1, c2 \in Codes :
         DatesOf(c1) # {} /\ DatesOf(c2) # {} /\ DatesOf(c1) # DatesOf(c2)

\* the ledger's first n trades applied to (initial_capital, zero positions)
RECURSIVE Replay(_)
Replay(n) ==
    IF n = 0
    THEN [cash |-> Money(initial_capital), positions |-> [c \in Codes |-> 0]]
    ELSE LET prev == Replay(n - 1)
             t == trades[n]
         IN IF t.trade_type = "buy"
            THEN [cash |-> prev.cash - (t.amount + t.commission),
                  positions |-> [prev.positions EXCEPT ![t.stock_code] = @ + t.quantity]]
            ELSE [cash |-> prev.cash + (t.amount - t.commission),
                  positions |-> [prev.positions EXCEPT ![t.stock_code] = @ - t.quantity]]

\* C4: replaying the ledger in append order from initial_capital and zero
\* positions gives, after each trade, that trade's cash_after, and at the end
\* the simulator's cash and positions: all zero in the returned state.
C4_ReplayLaw ==
    sim_created =>
        /\ \A n \in DOMAIN trades : Replay(n).cash = trades[n].cash_after
        /\ Replay(Len(trades)).cash = cash
        /\ Replay(Len(trades)).positions = positions
        /\ pc = "returned" => \A c \in Codes : Replay(Len(trades)).positions[c] = 0

\* a returned ledger of at least four trades with commission charged
C4_Witness ==
    /\ pc = "returned"
    /\ Len(trades) >= 4
    /\ commission_rate > 0
    /\ cash # Money(initial_capital)

\* sum over the held codes of quantity times the close price of date d
RECURSIVE HeldValue(_, _, _)
HeldValue(S, d, pos) ==
    IF S = {} THEN 0
    ELSE LET c == CHOOSE x \in S : TRUE
         IN (IF pos[c] > 0 THEN pos[c] * Money(ClosePrice(c, d)) ELSE 0)
            + HeldValue(S \ {c}, d, pos)

\* C5: the snapshot appended for a date has total = cash + sum of position
\* quantity times that date's close, on the cash and positions the date's
\* processing left; later steps leave it alone, except that forced liquidation
\* makes the last snapshot the one of the state it leaves.
C5_TotalValue ==
    [][/\ (pc = "value" /\ pc' # "raised") =>
            portfolio_history' =
                Append(portfolio_history,
                       [date |-> trade_date,
                        total |-> cash' + HeldValue(Codes, trade_date, positions')])
       /\ pc = "liquidate" =>
            /\ Len(portfolio_history') >= Len(portfolio_history)
            /\ \A k \in 1..(Len(portfolio_history') - 1) :
                 portfolio_history'[k] = portfolio_history[k]
            /\ Last(portfolio_history') =
                 [date |-> LastDate,
                  total |-> cash' + HeldValue(Codes, LastDate, positions')]
       /\ pc \notin {"value", "liquidate"} => portfolio_history' = portfolio_history
      ]_vars

\* a returned history of several dates whose totals moved with the position
C5_Witness ==
    /\ pc = "returned"
    /\ Len(portfolio_history) >= 3
    /\ portfolio_history[1].total # portfolio_history[2].total
    /\ portfolio_history[2].total # portfolio_history[3].total
    /\ ForcedSellHappened

\* C6: every position is a non-negative multiple of the lot size, in every
\* state of the simulation, and so is every traded quantity.
C6_PositionsWholeLots ==
    sim_created =>
        /\ \A c \in Codes : positions[c] >= 0 /\ positions[c] % LotSize = 0
        /\ \A i \in DOMAIN trades :
             trades[i].quantity > 0 /\ trades[i].quantity % LotSize = 0

\* a position of several lots bought with part of its allocation left over
C6_Witness ==
    \E i \in DOMAIN trades :
        /\ BuyAt(i)
        /\ trades[i].quantity > LotSize
        /\ positions[trades[i].stock_code] = trades[i].quantity
        /\ trades[i].cash_after > 0

\* C7 as stated: with an invalid configuration (initial_capital <= 0, no
\* instrument, commission_rate < 0 or slippage < 0) the run never gets past
\* construction: no simulation state, no snapshot and no trade exist.
C7_InvalidConfigFailsFast ==
    ~ValidConfig =>
        /\ ~sim_created
        /\ pc \in {"constructed", "no_data"}
        /\ portfolio_history = <<>>
        /\ trades = <<>>

\* C8 as stated, for valid configurations: every recorded trade is for a
\* (date, instrument) pair that has a record in the price universe, so a signal
\* row for a pair without one trades nothing (and opens no position whose
\* valuation lookup then fails).
C8_UnpricedSignalIgnored ==
    ValidConfig =>
        \A i \in DOMAIN trades :
            PriceSeries(trades[i].stock_code, trades[i].date) # {}

HeldUnpriced(d) ==
    \E c \in Codes : positions[c] > 0 /\ PriceSeries(c, d) = {}

\* C9: when a date is valued while an instrument is held that has no price
\* record on it, the run ends there in an error: no snapshot is appended for
\* the date, and from the error nothing is ever returned.
C9_HeldUnpricedFailsRun ==
    [][/\ (pc = "value" /\ HeldUnpriced(trade_date)) =>
            /\ pc' = "raised"
            /\ portfolio_history' = portfolio_history
            /\ trades' = trades
       /\ pc = "raised" => pc' = "raised"
      ]_vars

\* a run that failed on a later date for a position bought on a priced date
C9_Witness ==
    /\ pc = "raised"
    /\ Len(portfolio_history) >= 1
    /\ HeldUnpriced(trade_date)
    /\ \A i \in DOMAIN trades :
         PriceSeries(trades[i].stock_code, trades[i].date) # {}

\* C10: every sell appended by a step (sell pass or forced liquidation) sells
\* the whole position held before it and leaves it 0; its price is
\* close * (1 - slippage), its amount price * quantity, its commission
\* amount * commission_rate, and cash grows by exactly amount - commission.
C10_SellLiquidatesWholePosition ==
    [][\A n \in (Len(trades) + 1)..Len(trades') :
          trades'[n].trade_type = "sell" =>
            LET t == trades'[n]
                c == t.stock_code
                close == IF pc = "sell" THEN day_signals'[c].close_price
                         ELSE ClosePrice(c, LastDate)
                cash_before == IF n = Len(trades) + 1 THEN cash
                               ELSE trades'[n - 1].cash_after
            IN /\ t.date = (IF pc = "sell" THEN trade_date ELSE LastDate)
               /\ t.quantity = positions[c]
               /\ t.quantity > 0
               /\ positions'[c] = 0
               /\ t.price * SlipDen = Money(close) * (SlipDen - slippage)
               /\ t.amount = t.price * t.quantity
               /\ t.commission * CommDen = t.amount * commission_rate
               /\ t.cash_after - cash_before = t.amount - t.commission
               /\ (n = Len(trades') => cash' = t.cash_after)
      ]_vars

\* Scenario D: 100 shares sold at executed price 10 with commission_rate
\* 1/CommDen = 0.001: gross 1000, commission 1, cash grows by 999
C10_Witness ==
    /\ commission_rate = 1
    /\ slippage = 0
    /\ \E n \in DOMAIN trades :
         /\ n > 1
         /\ SellAt(n)
         /\ trades[n].quantity = 100
         /\ trades[n].price = Money(10)
         /\ trades[n].amount = Money(1000)
         /\ trades[n].commission = Money(1)
         /\ trades[n].cash_after - trades[n - 1].cash_after = Money(999)

\* the flat codes with a buy row on the current date, and the quantity the
\* equal split gives each of them out of the cash C the buy pass starts with
Candidates == {c \in Codes : positions[c] = 0 /\ HasSignals(c)
                              /\ day_signals[c].signal = "buy"}
SplitQty(c, C, k) ==
    LET executed == (Money(day_signals[c].close_price) * (SlipDen + slippage)) \div SlipDen
    IN ((C \div (k * executed)) \div LotSize) * LotSize
NewTradesOf(c) ==
    {n \in (Len(trades) + 1)..Len(trades') : trades'[n].stock_code = c}

\* C11: in a buy pass with k >= 1 candidates and cash C > 1, every candidate
\* gets the quantity floor(floor((C / k) / (close * (1 + slippage))) / 100) * 100
\* computed from the cash C at the start of the pass; it is bought if that is
\* at least one lot, whatever the other candidates do, and nothing else changes
\* a position.
C11_EqualSplit ==
    [][pc = "buy" =>
        LET k == Cardinality(Candidates)
        IN IF k >= 1 /\ cash > Money(CashThreshold)
           THEN \A c \in Codes :
                  IF c \in Candidates /\ SplitQty(c, cash, k) >= LotSize
                  THEN /\ positions'[c] = SplitQty(c, cash, k)
                       /\ \E n \in NewTradesOf(c) :
                            /\ NewTradesOf(c) = {n}
                            /\ trades'[n].trade_type = "buy"
                            /\ trades'[n].quantity = SplitQty(c, cash, k)
                  ELSE /\ positions'[c] = positions[c]
                       /\ NewTradesOf(c) = {}
           ELSE UNCHANGED <<cash, positions, trades>>
      ]_vars

\* two candidates bought in one pass, the second with a quantity that the
\* cash left by the first would not have given it
C11_Witness ==
    /\ pc = "value"
    /\ Len(trades) >= 2
    /\ LET t1 == trades[Len(trades) - 1]
           t2 == trades[Len(trades)]
       IN /\ t1.trade_type = "buy" /\ t2.trade_type = "buy"
          /\ t1.date = trade_date /\ t2.date = trade_date
          /\ t1.stock_code # t2.stock_code
          /\ t2.quantity # t1.quantity
          /\ t2.quantity * t2.price > t1.cash_after \div 2

\* C12: a candidate whose split quantity is below one lot gets no trade and
\* keeps position 0, the pass debits cash by exactly the buys it records, and
\* no entry of the ledger has a quantity below one lot.
C12_SubLotBuyDropped ==
    [][pc = "buy" =>
        LET k == Cardinality(Candidates)
            recorded == (Len(trades) + 1)..Len(trades')
            Debit[n \in (Len(trades)..Len(trades'))] ==
                IF n = Len(trades) THEN 0
                ELSE Debit[n - 1] + trades'[n].amount + trades'[n].commission
        IN /\ \A c \in Candidates :
                (k >= 1 /\ SplitQty(c, cash, k) < LotSize) =>
                    /\ NewTradesOf(c) = {}
                    /\ positions'[c] = 0
           /\ cash' = cash - Debit[Len(trades')]
           /\ \A n \in recorded : trades'[n].quantity >= LotSize
      ]_vars

\* after a buy pass that had cash to spend, a candidate is still flat
C12_Witness ==
    /\ pc = "value"
    /\ cash > Money(CashThreshold)
    /\ \E c \in Codes :
         /\ day_signals[c].signal = "buy"
         /\ positions[c] = 0
         /\ \A i \in DOMAIN trades : trades[i].stock_code # c

AllDates == {r.trade_date : r \in all_stocks_data}
MaxOfDates == CHOOSE d \in AllDates : \A e \in AllDates : e <= d
Held == {c \in Codes : positions[c] > 0}

\* C13: forced liquidation keeps the ledger of the loop and appends after it
\* exactly one sell per instrument still held, dated the last date of the date
\* universe and priced from that date's close; with a position open it
\* overwrites the total of the existing last snapshot with the final cash and
\* appends none; with no position open it changes neither ledger nor history.
C13_ForcedLiquidation ==
    [][pc = "liquidate" =>
        /\ SubSeq(trades', 1, Len(trades)) = trades
        /\ Len(trades') = Len(trades) + Cardinality(Held)
        /\ \A c \in Held :
             \E n \in NewTradesOf(c) :
                /\ NewTradesOf(c) = {n}
                /\ trades'[n].trade_type = "sell"
                /\ trades'[n].date = MaxOfDates
                /\ trades'[n].quantity = positions[c]
                /\ trades'[n].price * SlipDen =
                     Money(ClosePrice(c, MaxOfDates)) * (SlipDen - slippage)
        /\ IF Held # {}
           THEN /\ Len(portfolio_history') = Len(portfolio_history)
                /\ portfolio_history' =
                     [portfolio_history EXCEPT ![Len(portfolio_history)].total = cash']
           ELSE /\ portfolio_history' = portfolio_history
                /\ cash' = cash
      ]_vars

\* a returned run of several dates whose ledger ends with the forced sells of
\* two instruments, after frictions changed the last snapshot
C13_Witness ==
    /\ pc = "returned"
    /\ Len(SortedDates) >= 2
    /\ Len(trades) >= 4
    /\ SellAt(Len(trades)) /\ SellAt(Len(trades) - 1)
    /\ BuyAt(Len(trades) - 2) /\ trades[Len(trades) - 2].date = LastDate
    /\ slippage > 0

\* C14: the returned history has exactly one snapshot per distinct trading
\* date of the price universe, in strictly ascending date order.
C14_OneSnapshotPerDate ==
    pc = "returned" =>
        /\ {portfolio_history[i].date : i \in DOMAIN portfolio_history} = AllDates
        /\ Len(portfolio_history) = Cardinality(AllDates)
        /\ \A i, j \in DOMAIN portfolio_history :
             i < j => portfolio_history[i].date < portfolio_history[j].date

\* a returned history over the union of two different date sets, after a
\* forced liquidation
C14_Witness ==
    /\ pc = "returned"
    /\ ForcedSellHappened
    /\ Len(portfolio_history) >= 3
    /\ \E c1, c2 \in Codes :
         /\ DatesOf(c1) \ DatesOf(c2) # {}
         /\ DatesOf(c2) \ DatesOf(c1) # {}

\* C16: when data retrieval yields no record, run() ends in the no-data
\* return: no signal row is read, no simulation state, snapshot or trade is
\* ever created, and so nothing reaches the save that follows the simulation.
C16_NoDataShortCircuit ==
    all_stocks_data = {} =>
        /\ pc \in {"constructed", "no_data"}
        /\ ~sim_created
        /\ day_signals = <<>>
        /\ portfolio_history = <<>>
        /\ trades = <<>>

\* the no-data return, for a run that asked for an instrument
C16_Witness ==
    /\ pc = "no_data"
    /\ Len(stock_codes) > 0
    /\ initial_capital > 0

TradesOf(c) == SelectSeq(trades, LAMBDA t : t.stock_code = c)

\* C18: the trades of one instrument alternate buy, sell, buy, sell, ...
\* starting with a buy; each sell has the quantity of the buy before it; the
\* instrument is held exactly when its last trade is a buy (so no buy happens
\* while held and no sell while flat), and in the returned ledger its last
\* trade is a sell.
C18_TradesAlternate ==
    sim_created =>
        \A c \in Codes :
            LET own == TradesOf(c)
            IN /\ \A k \in DOMAIN own :
                    IF k % 2 = 1 THEN own[k].trade_type = "buy"
                    ELSE /\ own[k].trade_type = "sell"
                         /\ own[k].quantity = own[k - 1].quantity
               /\ (positions[c] > 0) <=> (Len(own) % 2 = 1)
               /\ pc = "returned" => Len(own) % 2 = 0

\* an instrument bought, sold, bought again and liquidated
C18_Witness ==
    /\ pc = "returned"
    /\ \E c \in Codes : Len(TradesOf(c)) >= 4

\* cash plus the positions marked at the closes of date d; defined when every
\* held code has a record on d
Markable(d, pos) == \A c \in Codes : pos[c] > 0 => PriceSeries(c, d) # {}
Marked(d, c0, pos) == c0 + HeldValue(Codes, d, pos)

\* C20: with commission_rate >= 0 and slippage >= 0 no pass of a date raises
\* the value of cash and positions marked at that date's closes, and with both
\* 0 no pass changes it; the date's snapshot is that value, so it never exceeds,
\* or equals, the marked value of the state the date started with; and the
\* final cash after forced liquidation never exceeds the last snapshot before
\* it.
C20_NoValueCreated ==
    [][(initial_capital > 0 /\ commission_rate >= 0 /\ slippage >= 0) =>
        /\ (/\ pc \in {"sell", "buy"}
            /\ Markable(trade_date, positions)
            /\ Markable(trade_date, positions')) =>
              /\ Marked(trade_date, cash', positions')
                   <= Marked(trade_date, cash, positions)
              /\ (commission_rate = 0 /\ slippage = 0) =>
                   Marked(trade_date, cash', positions')
                     = Marked(trade_date, cash, positions)
        /\ (pc = "value" /\ pc' # "raised") =>
              Last(portfolio_history').total = Marked(trade_date, cash, positions)
        /\ pc = "liquidate" =>
              /\ cash' <= Last(portfolio_history).total
              /\ Last(portfolio_history').total <= Last(portfolio_history).total
              /\ (commission_rate = 0 /\ slippage = 0) =>
                   cash' = Last(portfolio_history).total
      ]_vars

\* a first buy under slippage and commission: the marked value has dropped
\* below the capital the date started with
C20_Witness ==
    /\ pc = "value"
    /\ commission_rate > 0
    /\ slippage > 0
    /\ Len(trades) = 1
    /\ BuyAt(1)
    /\ Markable(trade_date, positions)
    /\ Marked(trade_date, cash, positions) < Money(initial_capital)

\* Scenario A: one instrument with closes 10, 12, 8 on three dates, capital
\* 10000, no commission, no slippage, signals hold, buy, sell
ScenarioAInputs ==
    /\ stock_codes = <<"A">>
    /\ initial_capital = 10000 /\ commission_rate = 0 /\ slippage = 0
    /\ all_stocks_data =
         {[stock_code |-> "A", trade_date |-> d, close_price |-> PriceOf("A", d)] :
          d \in {1, 2, 3}}
    /\ <<PriceOf("A", 1), PriceOf("A", 2), PriceOf("A", 3)>> = <<10, 12, 8>>

ScenarioASignals == <<"hold", "buy", "sell">>

ScenarioABuy ==
    Trade("A", 2, "buy", Money(12), 800, Money(9600), 0, Money(400))

ScenarioASell ==
    Trade("A", 3, "sell", Money(8), 800, Money(6400), 0, Money(6800))

\* the state Scenario A prescribes at position p of the pass over date i
ScenarioAState(p, i) ==
    LET bought == (i = 2 /\ p = "value") \/ (i = 3 /\ p = "sell")
        sold == i = 3 /\ p # "sell"
        snapshots == IF p \in {"liquidate", "returned"} THEN 3 ELSE i - 1
        totals == <<Money(10000), Money(10000), Money(6800)>>
    IN [cash |-> IF sold THEN Money(6800)
                 ELSE IF bought THEN Money(400) ELSE Money(10000),
        positions |-> [c \in {"A"} |-> IF bought THEN 800 ELSE 0],
        trades |-> IF sold THEN <<ScenarioABuy, ScenarioASell>>
                   ELSE IF bought THEN <<ScenarioABuy>> ELSE <<>>,
        portfolio_history |-> [n \in 1..snapshots |-> [date |-> n, total |-> totals[n]]]]

ScenarioAFollowed ==
    /\ ScenarioAInputs
    /\ \/ pc = "constructed"
       \/ /\ pc \in {"sell", "buy", "value", "liquidate", "returned"}
          /\ pc \in {"buy", "value"} =>
               day_signals["A"].signal = ScenarioASignals[date_idx]
          /\ [cash |-> cash, positions |-> positions, trades |-> trades,
              portfolio_history |-> portfolio_history]
               = ScenarioAState(pc, date_idx)

\* C15: a run on the Scenario A inputs that reads the signals hold, buy, sell
\* goes through the prescribed states and no others: nothing on date 1, a buy
\* of 800 at 12 costing 9600 on date 2, a sell of 800 at 8 for 6400 on date 3,
\* snapshots 10000, 10000, 6800, and it returns with exactly these two trades,
\* cash 6800 and last snapshot 6800.
C15_ScenarioA ==
    [][(/\ ScenarioAFollowed
        /\ pc' = "buy" => day_signals'["A"].signal = ScenarioASignals[date_idx'])
       => /\ ScenarioAFollowed'
          /\ pc' # pc
          /\ pc = "liquidate" => pc' = "returned"]_vars

\* the end of Scenario A
C15_Witness ==
    /\ ScenarioAFollowed
    /\ pc = "returned"
    /\ trades = <<ScenarioABuy, ScenarioASell>>
    /\ cash = Money(6800)
    /\ Last(portfolio_history) = [date |-> 3, total |-> Money(6800)]

\* the step of a run that is at position pc of date date_idx
StepNo ==
    CASE pc = "sell" -> 3 * date_idx - 2
      [] pc = "buy" -> 3 * date_idx - 1
      [] pc = "value" -> 3 * date_idx
      [] pc = "liquidate" -> 3 * date_idx + 1
      [] OTHER -> 3 * date_idx + 2

SecondRunStarted == first_run.complete /\ sim_created

TradeBag(ledger, d) ==
    LET on == {i \in DOMAIN ledger : ledger[i].date = d}
    IN [t \in {ledger[i] : i \in on} |-> Cardinality({i \in on : ledger[i] = t})]

\* a ledger without the running cash of its trades
WithoutCashAfter(ledger) ==
    [i \in DOMAIN ledger |->
        [stock_code |-> ledger[i].stock_code, date |-> ledger[i].date,
         trade_type |-> ledger[i].trade_type, price |-> ledger[i].price,
         quantity |-> ledger[i].quantity, amount |-> ledger[i].amount,
         commission |-> ledger[i].commission]]

SameCashPositionsHistory(st) ==
    /\ st.pc = pc /\ st.date_idx = date_idx
    /\ st.cash = cash
    /\ st.positions = positions
    /\ st.portfolio_history = portfolio_history

====
